---- MODULE Spec2Model ----
(***************************************************************************)
(* MGit (src/mgit.py): the fuzzy subsequence matcher, the selector that    *)
(* resolves "-t" tokens into a target map, the concurrent dispatcher       *)
(* (run_concurrent / _run_single_repo, serialised by print_lock) and the   *)
(* status aggregator (show_summary / _get_repo_status_summary).            *)
(*                                                                         *)
(* Strings are sequences of one-character strings; positions are 0-based   *)
(* as in Python, so text[j + 1] is Python's text[j].  Two characters are   *)
(* written by name: "DOTTED_I" is U+0130, whose str.lower() is the two     *)
(* characters "i" and U+0307, the latter written "DOT_ABOVE".              *)
(***************************************************************************)
EXTENDS Integers, Sequences, FiniteSets, TLC

VARIABLES
    repos,          \* self.repos: the registry, a list of paths
    argv,           \* the command line: [selector, command]
    pc,             \* position of the main thread
    keys,           \* get_target_repos: the tokens the loop has still to visit
    selected_map,   \* get_target_repos: the dict under construction (insertion ordered)
    warnings,       \* the tokens the current resolution printed a warning for, in order
    resolved,       \* the maps get_target_repos returned so far, one per call
    target_map,     \* the dict handed to run_concurrent / show_summary
    world,          \* per target: what its external command and its prints will do;
                    \* in a summary, what its three queries did
    wpc,            \* per target: position of the pool task that serves it
    todo,           \* per target: the lines its current with-block has still to print
    lock,           \* print_lock: 0 when free, else the target whose task holds it
    out,            \* the lines printed so far
    rows,           \* per target: the tuple its _get_repo_status_summary returned
    results,        \* show_summary: the list "results"
    mq, mt,         \* _fuzzy_match: the arguments query and text
    mres,           \* _fuzzy_match: the returned pair
    m_temp,         \* _fuzzy_match: temp_indices at the return
    mpc             \* _fuzzy_match: "call" before, "ret" after

vars == <<repos, argv, pc, keys, selected_map, warnings, resolved, target_map, world, wpc,
          todo, lock, out, rows, results, mq, mt, mres, m_temp, mpc>>

sel_vars == <<keys, selected_map, warnings, resolved, target_map>>
pool_vars == <<world, wpc, todo, lock, rows, results>>
match_vars == <<mq, mt, mres, m_temp, mpc>>

(***************************************************************************)
(* Bounds of the model.                                                    *)
(***************************************************************************)
MaxQueryLen == 2
MaxTextLen == 3
MaxSelLen == 4
MaxRepos == 2
PoolExtra == 1      \* dispatches of up to MaxWorkers + PoolExtra targets
PoolLive == 2       \* of which this many commands terminate
MaxCalls == 2       \* get_target_repos is called up to this many times in a row
MaxRegistry == 3    \* add_repo is followed up to a registry of this many paths

(***************************************************************************)
(* Constants of the program.                                               *)
(***************************************************************************)
MaxWorkers == 10            \* run_concurrent: min(10, len(targets_map))
SummaryMaxWorkers == 20     \* show_summary: min(20, len(targets_map))

(***************************************************************************)
(* Small helpers.                                                          *)
(***************************************************************************)
Min(S) == CHOOSE x \in S : \A y \in S : x <= y
Max(S) == CHOOSE x \in S : \A y \in S : x >= y
Range(s) == {s[j] : j \in 1..Len(s)}
Strings(alphabet, n) == UNION {[1..k -> alphabet] : k \in 0..n}

(***************************************************************************)
(* str.lower(): one character at a time.  U+0130 is the one character     *)
(* whose lowercase form is two characters long.                            *)
(***************************************************************************)
LowerChar(c) ==
    CASE c = "A" -> <<"a">>
      [] c = "R" -> <<"r">>
      [] c = "DOTTED_I" -> <<"i", "DOT_ABOVE">>
      [] OTHER -> <<c>>

RECURSIVE lower(_)
lower(s) == IF s = <<>> THEN <<>> ELSE LowerChar(Head(s)) \o lower(Tail(s))

(***************************************************************************)
(* str.find(char, start): the first 0-based index >= start that holds     *)
(* char, or -1.                                                            *)
(***************************************************************************)
find_last(text, char, start) ==
    LET hits == {j \in start..(Len(text) - 1) : text[j + 1] = char}
    IN  IF hits = {} THEN -1 ELSE Max(hits)

find(text, char, start) ==
    LET hits == {j \in start..(Len(text) - 1) : text[j + 1] = char}
    IN  IF hits = {} THEN -1 ELSE Min(hits)

(***************************************************************************)
(* _fuzzy_match, lines 90-102: the loop "for char in query" over the       *)
(* lowercased query, with t_start and temp_indices as its locals.          *)
(***************************************************************************)
RECURSIVE fuzzy_loop(_, _, _, _)
fuzzy_loop(query, text_lower, t_start, temp_indices) ==
    IF query = <<>>
    THEN [matched |-> TRUE, temp_indices |-> temp_indices]
    ELSE LET found_idx == find(text_lower, Head(query), t_start)
         IN  IF found_idx = -1
             THEN [matched |-> FALSE, temp_indices |-> <<>>]
             ELSE fuzzy_loop(Tail(query), text_lower, found_idx + 1,
                             Append(temp_indices, found_idx))

_fuzzy_match(query, text) ==
    LET r == fuzzy_loop(lower(query), lower(text), 0, <<>>)
    IN  [matched |-> r.matched, indices |-> Range(r.temp_indices)]

(***************************************************************************)
(* The matcher on its own: every query and text within the bounds, and     *)
(* the docstring's example.                                                *)
(***************************************************************************)
MatchChars == {"a", "A", "i", "DOTTED_I", "DOT_ABOVE"}
ExampleQuery == <<"r", "e", "1">>
ExampleText == <<"r", "e", "p", "o", "1">>
NoResult == [matched |-> FALSE, indices |-> {}]

MatchIdle ==
    /\ mq = <<>> /\ mt = <<>> /\ mres = NoResult /\ m_temp = <<>> /\ mpc = "idle"
SelIdle ==
    /\ keys = <<>> /\ selected_map = <<>> /\ warnings = <<>> /\ resolved = <<>>
    /\ target_map = <<>>
PoolIdle ==
    /\ world = <<>> /\ wpc = <<>> /\ todo = <<>> /\ lock = 0
    /\ rows = <<>> /\ results = <<>>
NoArgv == [selector |-> <<>>, command |-> "none"]

InitMatch ==
    /\ \/ /\ mq \in Strings(MatchChars, MaxQueryLen)
          /\ mt \in Strings(MatchChars, MaxTextLen)
       \/ /\ mq = ExampleQuery
          /\ mt \in {ExampleText, <<"R", "e", "1">>, <<"r", "1", "e">>}
    /\ mres = NoResult /\ m_temp = <<>> /\ mpc = "call"
    /\ repos = <<>> /\ argv = NoArgv /\ pc = "idle" /\ out = <<>>
    /\ SelIdle /\ PoolIdle

FuzzyMatchCall ==
    /\ mpc = "call"
    /\ mres' = _fuzzy_match(mq, mt)
    /\ m_temp' = fuzzy_loop(lower(mq), lower(mt), 0, <<>>).temp_indices
    /\ mpc' = "ret"
    /\ UNCHANGED <<mq, mt, repos, argv, pc, out, sel_vars, pool_vars>>

NextMatch == FuzzyMatchCall
SpecMatch == InitMatch /\ [][NextMatch]_vars

(***************************************************************************)
(* Q is a subsequence of T, case ignored: the lowercased Q embeds, in      *)
(* order, into the lowercased T.                                           *)
(***************************************************************************)
IsEmbedding(f, q, t) ==
    /\ \A k \in 1..Len(q) : q[k] = t[f[k]]
    /\ \A k \in 1..(Len(q) - 1) : f[k] < f[k + 1]
IsSubsequence(q, t) == \E f \in [1..Len(q) -> 1..Len(t)] : IsEmbedding(f, q, t)
IsSubsequenceCI(q, t) == IsSubsequence(lower(q), lower(t))
StrictlyIncreasing(s) == \A k \in 1..(Len(s) - 1) : s[k] < s[k + 1]

\* C5: _fuzzy_match(Q, T) succeeds iff Q is a case-insensitive subsequence of
\* T; on success the recorded positions strictly increase in query order and
\* the returned set has exactly len(Q) elements; on failure the set is empty.
C5_MatchIffSubsequence ==
    mpc = "ret" =>
        /\ mres.matched <=> IsSubsequenceCI(mq, mt)
        /\ mres.matched =>
              /\ StrictlyIncreasing(m_temp)
              /\ Cardinality(mres.indices) = Len(mq)
        /\ ~mres.matched => mres.indices = {}

\* C6: on success the recorded positions are the greedy leftmost embedding of
\* the lowercased query in the lowercased text: the k-th position is the
\* smallest index past the (k-1)-th (from 0 for the first) that holds the
\* k-th character; "re1" against "repo1" gives {0,1,4}.
C6_GreedyLeftmost ==
    mpc = "ret" =>
        /\ mres.matched =>
              LET q == lower(mq)
                  t == lower(mt)
              IN  /\ Len(m_temp) = Len(q)
                  /\ mres.indices = Range(m_temp)
                  /\ \A k \in 1..Len(q) :
                        LET from == IF k = 1 THEN 0 ELSE m_temp[k - 1] + 1
                        IN  /\ m_temp[k] >= from
                            /\ m_temp[k] < Len(t)
                            /\ t[m_temp[k] + 1] = q[k]
                            /\ \A j \in from..(m_temp[k] - 1) : t[j + 1] # q[k]
        /\ (mq = ExampleQuery /\ mt = ExampleText) =>
              (mres.matched /\ mres.indices = {0, 1, 4})

C6_Witness ==
    /\ mpc = "ret" /\ mres.matched
    /\ mq = <<"A", "a">> /\ mt = <<"i", "a", "A">>

(***************************************************************************)
(* Paths, os.path.basename, and the string operations get_target_repos     *)
(* applies to the selector: split(','), strip(), int(), isdigit().         *)
(***************************************************************************)
RepoA0 == <<"/", "x", "/", "a", "0">>
RepoA2 == <<"/", "y", "/", "A", "2">>
RepoI == <<"/", "x", "/", "DOTTED_I">>
AllPaths == <<RepoA0, RepoA2, RepoI>>

basename(path) ==
    LET slashes == {j \in 1..Len(path) : path[j] = "/"}
    IN  IF slashes = {} THEN path ELSE SubSeq(path, Max(slashes) + 1, Len(path))

RECURSIVE split(_, _)
split(s, sep) ==
    LET hits == {j \in 1..Len(s) : s[j] = sep}
    IN  IF hits = {} THEN <<s>>
        ELSE <<SubSeq(s, 1, Min(hits) - 1)>>
                 \o split(SubSeq(s, Min(hits) + 1, Len(s)), sep)

strip(s) ==
    LET solid == {j \in 1..Len(s) : s[j] # " "}
    IN  IF solid = {} THEN <<>> ELSE SubSeq(s, Min(solid), Max(solid))

DigitValue == ("0" :> 0) @@ ("1" :> 1) @@ ("2" :> 2)
IsDigitChar(c) == c \in DOMAIN DigitValue

RECURSIVE digits_value(_)
digits_value(s) ==
    IF s = <<>> THEN 0
    ELSE 10 * digits_value(SubSeq(s, 1, Len(s) - 1)) + DigitValue[s[Len(s)]]

\* int(key) raises ValueError unless key is an optional sign and digits.
int_parses(key) ==
    LET body == IF key # <<>> /\ Head(key) \in {"-", "+"} THEN Tail(key) ELSE key
    IN  body # <<>> /\ \A j \in 1..Len(body) : IsDigitChar(body[j])

int(key) ==
    IF Head(key) = "-" THEN 0 - digits_value(Tail(key))
    ELSE IF Head(key) = "+" THEN digits_value(Tail(key))
    ELSE digits_value(key)

isdigit(key) == key # <<>> /\ \A j \in 1..Len(key) : IsDigitChar(key[j])

(***************************************************************************)
(* A dict is the sequence of its items in insertion order.                 *)
(***************************************************************************)
dict_has(d, k) == \E j \in 1..Len(d) : d[j].repo = k
dict_get(d, k) == d[CHOOSE j \in 1..Len(d) : d[j].repo = k].indices
dict_keys(d) == [j \in 1..Len(d) |-> d[j].repo]

\* "if repo not in selected_map: selected_map[repo] = set()"
dict_setdefault(d, k) ==
    IF dict_has(d, k) THEN d ELSE Append(d, [repo |-> k, indices |-> {}])

\* "selected_map[repo] = indices": the positions of the latest token replace
\* those of the earlier ones.
dict_update_overwrite(d, k, indices) ==
    [j \in 1..Len(d) |->
        IF d[j].repo = k THEN [d[j] EXCEPT !.indices = indices] ELSE d[j]]

\* "selected_map[repo].update(indices)"
dict_update(d, k, indices) ==
    [j \in 1..Len(d) |->
        IF d[j].repo = k THEN [d[j] EXCEPT !.indices = @ \cup indices] ELSE d[j]]

\* An empty selector that selects nothing.
no_repos(rs) == <<>>

\* "{repo: set() for repo in self.repos}"
all_repos(rs) == [j \in 1..Len(rs) |-> [repo |-> rs[j], indices |-> {}]]

(***************************************************************************)
(* get_target_repos, lines 153-163: the inner loop "for repo in            *)
(* self.repos" of one token.                                               *)
(***************************************************************************)
RECURSIVE match_repos(_, _, _, _)
match_repos(map, match_found, key, rest) ==
    IF rest = <<>> THEN [map |-> map, match_found |-> match_found]
    ELSE LET repo == Head(rest)
             m == _fuzzy_match(key, basename(repo))
         IN  IF m.matched
             THEN match_repos(dict_update(dict_setdefault(map, repo), repo, m.indices),
                              TRUE, key, Tail(rest))
             ELSE match_repos(map, match_found, key, Tail(rest))

\* A token that matches nothing ends the resolution with nothing selected.
fuzzy_branch_abort(map, warns, key, rs) ==
    LET r == match_repos(map, FALSE, key, rs)
    IN  [selected_map |-> IF r.match_found THEN r.map ELSE <<>>,
         warnings |-> IF ~r.match_found /\ ~isdigit(key)
                      THEN Append(warns, key) ELSE warns]

fuzzy_branch(map, warns, key, rs) ==
    LET r == match_repos(map, FALSE, key, rs)
    IN  [selected_map |-> r.map,
         warnings |-> IF ~r.match_found /\ ~isdigit(key)
                      THEN Append(warns, key) ELSE warns]

\* A body whose "continue" follows the index test instead of sitting inside
\* the range check: an integer token never reaches the matcher.
loop_body_int_never_matched(map, warns, raw, rs) ==
    LET key == strip(raw)
    IN  IF key = <<>> THEN [selected_map |-> map, warnings |-> warns]
        ELSE IF int_parses(key)
        THEN [selected_map |->
                  IF 0 <= int(key) /\ int(key) < Len(rs)
                  THEN dict_setdefault(map, rs[int(key) + 1]) ELSE map,
              warnings |-> warns]
        ELSE fuzzy_branch(map, warns, key, rs)

\* A body with no "continue" at all: a valid index is added and then matched
\* by name as well.
loop_body_no_continue(map, warns, raw, rs) ==
    LET key == strip(raw)
    IN  IF key = <<>> THEN [selected_map |-> map, warnings |-> warns]
        ELSE IF int_parses(key) /\ 0 <= int(key) /\ int(key) < Len(rs)
        THEN fuzzy_branch(dict_setdefault(map, rs[int(key) + 1]), warns, key, rs)
        ELSE fuzzy_branch(map, warns, key, rs)

(***************************************************************************)
(* get_target_repos, lines 137-166: one iteration of "for key in keys".    *)
(***************************************************************************)
loop_body(map, warns, raw, rs) ==
    LET key == strip(raw)
    IN  IF key = <<>> THEN [selected_map |-> map, warnings |-> warns]
        ELSE IF int_parses(key) /\ 0 <= int(key) /\ int(key) < Len(rs)
        THEN [selected_map |-> dict_setdefault(map, rs[int(key) + 1]),
              warnings |-> warns]
        ELSE fuzzy_branch(map, warns, key, rs)

(***************************************************************************)
(* get_target_repos as a function of the selector and the registry: the    *)
(* loop "for key in keys" from a given map, and the whole call.  A         *)
(* selector that is absent (None) and one that is the empty string are     *)
(* both falsy and both written <<>>.                                       *)
(***************************************************************************)
RECURSIVE resolve_keys(_, _, _, _)
resolve_keys(map, warns, ks, rs) ==
    IF ks = <<>> THEN [selected_map |-> map, warnings |-> warns]
    ELSE LET r == loop_body(map, warns, Head(ks), rs)
         IN  resolve_keys(r.selected_map, r.warnings, Tail(ks), rs)

get_target_repos(selector, rs) ==
    IF selector = <<>>
    THEN [selected_map |-> all_repos(rs), warnings |-> <<>>]
    ELSE resolve_keys(<<>>, <<>>, split(selector, ","), rs)

(***************************************************************************)
(* get_target_repos as steps of the calling thread.                        *)
(***************************************************************************)
reverse(list) == [j \in 1..Len(list) |-> list[Len(list) + 1 - j]]

\* A resolution that leaves the registry in the opposite order.
GetTargetReposReversing ==
    /\ pc = "resolve"
    /\ IF argv.selector = <<>>
       THEN /\ keys' = <<>>
            /\ selected_map' = all_repos(repos)
       ELSE /\ keys' = split(argv.selector, ",")
            /\ selected_map' = <<>>
    /\ warnings' = <<>>
    /\ repos' = reverse(repos)
    /\ pc' = "keys"
    /\ UNCHANGED <<argv, resolved, target_map, out, pool_vars, match_vars>>

GetTargetRepos ==
    /\ pc = "resolve"
    /\ IF argv.selector = <<>>
       THEN /\ keys' = <<>>
            /\ selected_map' = all_repos(repos)
       ELSE /\ keys' = split(argv.selector, ",")
            /\ selected_map' = <<>>
    /\ warnings' = <<>>
    /\ pc' = "keys"
    /\ UNCHANGED <<repos, argv, resolved, target_map, out, pool_vars, match_vars>>

ResolveKey ==
    /\ pc = "keys"
    /\ keys # <<>>
    /\ LET r == loop_body(selected_map, warnings, Head(keys), repos)
       IN  /\ selected_map' = r.selected_map
           /\ warnings' = r.warnings
    /\ keys' = Tail(keys)
    /\ UNCHANGED <<repos, argv, pc, resolved, target_map, out, pool_vars, match_vars>>

\* "return selected_map"; in main, "if not target_map: return".
ResolveReturn ==
    /\ pc = "keys"
    /\ keys = <<>>
    /\ target_map' = selected_map
    /\ resolved' = Append(resolved, selected_map)
    /\ pc' = IF argv.command = "none" THEN "returned"
             ELSE IF selected_map = <<>> THEN "exit" ELSE "command"
    /\ UNCHANGED <<repos, argv, keys, selected_map, warnings, out, pool_vars, match_vars>>

\* The caller resolves the same selector once more.
ResolveAgain ==
    /\ pc = "returned"
    /\ Len(resolved) < MaxCalls
    /\ pc' = "resolve"
    /\ UNCHANGED <<repos, argv, sel_vars, out, pool_vars, match_vars>>

(***************************************************************************)
(* The selector on its own: get_target_repos called with every selector    *)
(* string within the bounds, on every registry of distinct paths.          *)
(***************************************************************************)
SelChars == {"0", "2", "-", "a", "DOTTED_I", ",", " "}
SubLists(s, n) ==
    {t \in Strings(Range(s), n) :
        \E f \in [1..Len(t) -> 1..Len(s)] :
            /\ \A j \in 1..Len(t) : t[j] = s[f[j]]
            /\ \A j \in 1..(Len(t) - 1) : f[j] < f[j + 1]}
Registries == SubLists(AllPaths, MaxRepos)

InitSel ==
    /\ repos \in Registries
    /\ argv \in [selector : Strings(SelChars, MaxSelLen), command : {"none"}]
    /\ pc = "resolve"
    /\ out = <<>>
    /\ SelIdle /\ PoolIdle /\ MatchIdle

NextSel == GetTargetRepos \/ ResolveKey \/ ResolveReturn \/ ResolveAgain
SpecSel == InitSel /\ [][NextSel]_vars

\* The token the loop is about to visit, stripped.
CurrentKey == strip(Head(keys))
AtKey == pc = "keys" /\ keys # <<>> /\ CurrentKey # <<>>
IsIndexToken == int_parses(CurrentKey)
InRange == 0 <= int(CurrentKey) /\ int(CurrentKey) < Len(repos)
Matches(key, repo) == _fuzzy_match(key, basename(repo)).matched
Highlights(map, repo) == IF dict_has(map, repo) THEN dict_get(map, repo) ELSE {}

\* C4, as the claim states it: a token that parses as an integer but is no
\* valid index is silently ignored: it adds no repository, contributes no
\* highlight positions and emits no warning.
C4_OutOfRangeIgnored ==
    [][(AtKey /\ IsIndexToken /\ ~InRange)
          => (selected_map' = selected_map /\ warnings' = warnings)]_vars

\* C4, amended: a token that parses as an integer but is no valid index is
\* handled as a name: exactly the repositories whose basename it fuzzy-matches
\* are added (those already selected keep their place), each gaining the
\* matched positions; a warning is printed iff none matches and the token is
\* not all digits.
C4_OutOfRangeMatchedByName ==
    [][(AtKey /\ IsIndexToken /\ ~InRange) =>
          LET key == CurrentKey
              hit == {r \in Range(repos) : Matches(key, r)}
          IN  /\ Range(dict_keys(selected_map')) = Range(dict_keys(selected_map)) \cup hit
              /\ SubSeq(dict_keys(selected_map'), 1, Len(selected_map))
                    = dict_keys(selected_map)
              /\ \A r \in Range(dict_keys(selected_map')) :
                    Highlights(selected_map', r) =
                        Highlights(selected_map, r) \cup
                        (IF r \in hit THEN _fuzzy_match(key, basename(r)).indices ELSE {})
              /\ warnings' = IF hit = {} /\ ~isdigit(key)
                             THEN Append(warnings, key) ELSE warnings]_vars

\* An out-of-range index that selected a repository by name, with highlights.
C4_Witness ==
    /\ pc = "returned"
    /\ argv.selector = <<"2">>
    /\ repos = <<RepoA0, RepoA2>>
    /\ target_map = <<[repo |-> RepoA2, indices |-> {1}]>>

\* C10: a token that is a valid index k adds exactly the repository at
\* Registry position k (once), changes no highlight set and prints no
\* warning; the selector "0" on a non-empty registry yields the repository at
\* index 0 with an empty highlight set.
C10_IndexTokenAddsOnlyThatRepo ==
    /\ [][(AtKey /\ IsIndexToken /\ InRange) =>
            LET repo == repos[int(CurrentKey) + 1]
            IN  /\ selected_map' =
                      IF \E j \in 1..Len(selected_map) : selected_map[j].repo = repo
                      THEN selected_map
                      ELSE Append(selected_map, [repo |-> repo, indices |-> {}])
                /\ warnings' = warnings]_vars
    /\ []((pc = "returned" /\ argv.selector = <<"0">> /\ repos # <<>>)
            => target_map = <<[repo |-> repos[1], indices |-> {}]>>)

\* The selector "0" resolved against a registry whose first name holds a "0".
C10_Witness ==
    /\ pc = "returned"
    /\ argv.selector = <<"0">>
    /\ repos = <<RepoA0, RepoA2>>
    /\ Matches(<<"0">>, repos[1])
    /\ target_map = <<[repo |-> RepoA0, indices |-> {}]>>

(***************************************************************************)
(* _highlight_text: the text with the characters at the given 0-based      *)
(* indices marked; indices past the end of the text mark nothing.          *)
(***************************************************************************)
_highlight_text(text, indices) ==
    [j \in 1..Len(text) |-> [char |-> text[j], hl |-> (j - 1) \in indices]]

(***************************************************************************)
(* What the world does to one target of a dispatch: subprocess.run         *)
(* returns a result, raises FileNotFoundError ("nofile"), raises another   *)
(* exception ("exc") or never returns ("hang"); and which print, if any,   *)
(* raises: the header, the first body line, the footer, or the line the    *)
(* except clause prints ("handler").  A command takes its time: "after" is *)
(* the number of leading targets whose tasks are over before it            *)
(* terminates (0: it may terminate at any moment).                         *)
(***************************************************************************)
Result(rc, stdout, stderr, fault) ==
    [kind |-> "result", rc |-> rc, stdout |-> stdout, stderr |-> stderr,
     fault |-> fault, after |-> 0]
Raises(kind, fault) ==
    [kind |-> kind, rc |-> 0, stdout |-> FALSE, stderr |-> FALSE, fault |-> fault,
     after |-> 0]
Hang == Raises("hang", "none")
Ok == Result(0, TRUE, TRUE, "none")
Late(o, k) == [o EXCEPT !.after = k]

Outcomes ==
    { Result(0, FALSE, FALSE, "none"), Ok, Result(1, FALSE, TRUE, "none"),
      Result(0, TRUE, FALSE, "header"), Result(0, TRUE, FALSE, "body"),
      Result(0, TRUE, FALSE, "footer"),
      Raises("nofile", "none"), Raises("nofile", "handler"), Raises("exc", "none") }

Line(kind, repo, text) == [kind |-> kind, repo |-> repo, text |-> text]
BodyKinds == {"stdout", "stderr", "nooutput", "failed"}

\* _run_single_repo, lines 216-229: the prints between header and footer.
body_lines(repo, o) ==
    IF o.rc = 0
    THEN (IF o.stdout THEN <<Line("stdout", repo, <<>>)>> ELSE <<>>)
         \o (IF o.stderr THEN <<Line("stderr", repo, <<>>)>> ELSE <<>>)
         \o (IF ~o.stdout /\ ~o.stderr THEN <<Line("nooutput", repo, <<>>)>> ELSE <<>>)
    ELSE <<Line("failed", repo, <<>>)>>
         \o (IF o.stdout THEN <<Line("stdout", repo, <<>>)>> ELSE <<>>)
         \o (IF o.stderr THEN <<Line("stderr", repo, <<>>)>> ELSE <<>>)

\* _run_single_repo, lines 210-231: the prints of the with-block.
block_lines(item, o) ==
    <<Line("header", item.repo, _highlight_text(basename(item.repo), item.indices))>>
    \o body_lines(item.repo, o)
    \o <<Line("footer", item.repo, <<>>)>>

NTargets == Len(target_map)
Targets == 1..NTargets
LockWaits == {"lock207", "lock234", "lock237"}
Printing == {"print207", "print234", "print237"}
Busy == {i \in DOMAIN wpc : wpc[i] \notin {"new", "queued", "done"}}

\* ThreadPoolExecutor(max_workers=min(10, len(targets_map)))
max_workers_unbounded(n) == n
max_workers(n) == IF n < MaxWorkers THEN n ELSE MaxWorkers
\* ThreadPoolExecutor(max_workers=min(20, len(targets_map)))
summary_max_workers(n) == IF n < SummaryMaxWorkers THEN n ELSE SummaryMaxWorkers

(***************************************************************************)
(* main, lines 353-376: the target map of the invocation.                  *)
(***************************************************************************)
Main ==
    /\ pc = "main"
    /\ IF argv.selector # <<>>
       THEN /\ pc' = "resolve"
            /\ UNCHANGED target_map
       ELSE /\ target_map' = all_repos(repos)
            /\ pc' = "command"
    /\ UNCHANGED <<repos, argv, keys, selected_map, warnings, resolved, out, pool_vars,
                   match_vars>>

(***************************************************************************)
(* run_concurrent, lines 264-277.                                          *)
(***************************************************************************)
run_concurrent(worlds) ==
    /\ pc = "command"
    /\ argv.command = "git"
    /\ IF target_map = <<>>
       THEN /\ out' = Append(out, Line("notice", <<>>, <<>>))
            /\ pc' = "exit"
            /\ UNCHANGED <<world, wpc, todo>>
       ELSE /\ out' = Append(out, Line("banner", <<>>, <<>>))
            /\ world' \in worlds
            /\ wpc' = [i \in Targets |-> "new"]
            /\ todo' = [i \in Targets |-> <<>>]
            /\ pc' = "submit"
    /\ UNCHANGED <<repos, argv, sel_vars, lock, rows, results, match_vars>>

RunConcurrent == run_concurrent([Targets -> Outcomes])

(***************************************************************************)
(* executor.submit for the next repo of targets_map (lines 279-282 and     *)
(* 300-303); after the last one run_concurrent leaves the with-block,      *)
(* which joins the pool, and show_summary starts collecting.               *)
(***************************************************************************)
Submit(i) ==
    /\ pc = "submit"
    /\ wpc[i] = "new"
    /\ \A j \in 1..(i - 1) : wpc[j] # "new"
    /\ wpc' = [wpc EXCEPT ![i] = "queued"]
    /\ pc' = IF i < NTargets THEN "submit"
             ELSE IF argv.command = "summary" THEN "collect" ELSE "join"
    /\ UNCHANGED <<repos, argv, sel_vars, world, todo, lock, out, rows, results,
                   match_vars>>

(***************************************************************************)
(* A pool thread takes the oldest queued task; at most max_workers         *)
(* threads exist.                                                          *)
(***************************************************************************)
Start(i) ==
    /\ pc \in {"submit", "join", "collect"}
    /\ wpc[i] = "queued"
    /\ \A j \in 1..(i - 1) : wpc[j] # "queued"
    /\ Cardinality(Busy) <
          (IF argv.command = "summary" THEN summary_max_workers(NTargets)
           ELSE max_workers(NTargets))
    /\ wpc' = [wpc EXCEPT ![i] = IF argv.command = "summary" THEN "query" ELSE "run"]
    /\ UNCHANGED <<repos, argv, pc, sel_vars, world, todo, lock, out, rows, results,
                   match_vars>>

(***************************************************************************)
(* _run_single_repo, lines 189-205 and the except clauses: subprocess.run  *)
(* returns, or raises into line 233 or line 236.                           *)
(***************************************************************************)
RunDone(i) ==
    /\ wpc[i] = "run"
    /\ world[i].kind # "hang"
    /\ \A j \in 1..world[i].after : wpc[j] = "done"
    /\ wpc' = [wpc EXCEPT ![i] =
                  CASE world[i].kind = "result" -> "lock207"
                    [] world[i].kind = "nofile" -> "lock234"
                    [] OTHER -> "lock237"]
    /\ UNCHANGED <<repos, argv, pc, sel_vars, world, todo, lock, out, rows, results,
                   match_vars>>

(***************************************************************************)
(* "with print_lock:" at line 207, 234 or 237.                             *)
(***************************************************************************)
lines_to_print(i) ==
    CASE wpc[i] = "lock207" -> block_lines(target_map[i], world[i])
      [] wpc[i] = "lock234" -> <<Line("nopath", target_map[i].repo, <<>>)>>
      [] OTHER -> <<Line("error", target_map[i].repo, <<>>)>>

entered(i) ==
    CASE wpc[i] = "lock207" -> "print207"
      [] wpc[i] = "lock234" -> "print234"
      [] OTHER -> "print237"

\* The block entered without the lock.
AcquireWithoutLock(i) ==
    /\ wpc[i] \in LockWaits
    /\ lock' = i
    /\ todo' = [todo EXCEPT ![i] = lines_to_print(i)]
    /\ wpc' = [wpc EXCEPT ![i] = entered(i)]
    /\ UNCHANGED <<repos, argv, pc, sel_vars, world, out, rows, results, match_vars>>

Acquire(i) ==
    /\ wpc[i] \in LockWaits
    /\ lock = 0
    /\ lock' = i
    /\ todo' = [todo EXCEPT ![i] = lines_to_print(i)]
    /\ wpc' = [wpc EXCEPT ![i] = entered(i)]
    /\ UNCHANGED <<repos, argv, pc, sel_vars, world, out, rows, results, match_vars>>

(***************************************************************************)
(* One print of the with-block.  A print that raises leaves the block,     *)
(* which releases the lock; from the block of line 207 the exception lands *)
(* in "except Exception" (line 236), from an except clause it leaves the   *)
(* task.                                                                   *)
(***************************************************************************)
print_raises(i) ==
    LET kind == Head(todo[i]).kind
        fault == world[i].fault
    IN  \/ kind = "header" /\ fault = "header"
        \/ kind \in BodyKinds /\ fault = "body"
        \/ kind = "footer" /\ fault = "footer"
        \/ kind \in {"nopath", "error"} /\ fault = "handler"

\* A lock taken with acquire() and given back by a release() that an
\* exception skips.
PrintLineKeepsLock(i) ==
    /\ wpc[i] \in Printing
    /\ todo[i] # <<>>
    /\ IF print_raises(i)
       THEN /\ todo' = [todo EXCEPT ![i] = <<>>]
            /\ wpc' = [wpc EXCEPT ![i] = IF wpc[i] = "print207" THEN "lock237" ELSE "done"]
            /\ UNCHANGED <<out, lock>>
       ELSE /\ out' = Append(out, Head(todo[i]))
            /\ todo' = [todo EXCEPT ![i] = Tail(todo[i])]
            /\ UNCHANGED <<wpc, lock>>
    /\ UNCHANGED <<repos, argv, pc, sel_vars, world, rows, results, match_vars>>

PrintLine(i) ==
    /\ wpc[i] \in Printing
    /\ todo[i] # <<>>
    /\ IF print_raises(i)
       THEN /\ lock' = 0
            /\ todo' = [todo EXCEPT ![i] = <<>>]
            /\ wpc' = [wpc EXCEPT ![i] = IF wpc[i] = "print207" THEN "lock237" ELSE "done"]
            /\ UNCHANGED out
       ELSE /\ out' = Append(out, Head(todo[i]))
            /\ todo' = [todo EXCEPT ![i] = Tail(todo[i])]
            /\ UNCHANGED <<wpc, lock>>
    /\ UNCHANGED <<repos, argv, pc, sel_vars, world, rows, results, match_vars>>

\* The end of the with-block: the lock is released and the task returns.
Release(i) ==
    /\ wpc[i] \in Printing
    /\ todo[i] = <<>>
    /\ lock' = 0
    /\ wpc' = [wpc EXCEPT ![i] = "done"]
    /\ UNCHANGED <<repos, argv, pc, sel_vars, world, todo, out, rows, results,
                   match_vars>>

\* A pool left without waiting for its threads.
JoinNoWait ==
    /\ pc = "join"
    /\ pc' = "exit"
    /\ UNCHANGED <<repos, argv, sel_vars, pool_vars, out, match_vars>>

\* The pool's shutdown(wait=True) at the end of the with-block.
Join ==
    /\ pc = "join"
    /\ \A i \in Targets : wpc[i] = "done"
    /\ pc' = "exit"
    /\ UNCHANGED <<repos, argv, sel_vars, pool_vars, out, match_vars>>

(***************************************************************************)
(* _get_repo_status_summary.  The three queries are inputs: each may       *)
(* raise; "git status" prints something or nothing; "git rev-parse" exits  *)
(* 0 with the branch name, or non-zero with nothing (not a repository) or  *)
(* with "HEAD" (a repository with no commit yet); "git rev-list" exits     *)
(* non-zero, or 0 with two counts, or 0 with text that does not unpack     *)
(* into two integers.  The queries run one after the other, so a query    *)
(* that follows one that raised is not run at all.                         *)
(***************************************************************************)
StatusOutcomes ==
    {[raised |-> TRUE, dirty |-> FALSE]}
    \cup {[raised |-> FALSE, dirty |-> d] : d \in BOOLEAN}
BranchOutcomes ==
    { [raised |-> TRUE, rc |-> 0, stdout |-> ""],
      [raised |-> FALSE, rc |-> 0, stdout |-> "main"],
      [raised |-> FALSE, rc |-> 128, stdout |-> ""],
      [raised |-> FALSE, rc |-> 128, stdout |-> "HEAD"] }
AheadOutcomes ==
    { [raised |-> TRUE, rc |-> 0, counts |-> <<>>],
      [raised |-> FALSE, rc |-> 128, counts |-> <<>>],
      [raised |-> FALSE, rc |-> 0, counts |-> <<>>] }
    \cup {[raised |-> FALSE, rc |-> 0, counts |-> <<a, b>>] : a \in {0, 2}, b \in {0, 1}}

NotRun == [raised |-> FALSE, rc |-> -1, stdout |-> "", counts |-> <<>>, dirty |-> FALSE]
NoQueries == [status |-> NotRun, branch |-> NotRun, ahead |-> NotRun]
queries_run(s, b, a) ==
    [status |-> s,
     branch |-> IF s.raised THEN NotRun ELSE b,
     ahead |-> IF s.raised \/ b.raised THEN NotRun ELSE a]

\* A glyph for every count, zero included.
\* What the three queries of one repository can do together: where
\* "git rev-parse" exits non-zero there is no branch whose remote
\* "git rev-list" could count, and it does not exit 0.
Queries ==
    {queries_run(t[1], t[2], t[3]) :
        t \in {u \in StatusOutcomes \X BranchOutcomes \X AheadOutcomes :
                  u[2].rc # 0 => (u[3].raised \/ u[3].rc # 0)}}

sync_state_nonneg(res_ahead) ==
    IF res_ahead.rc = 0
    THEN (IF res_ahead.counts[1] >= 0 THEN <<<<"ahead", res_ahead.counts[1]>>>> ELSE <<>>)
         \o (IF res_ahead.counts[2] >= 0 THEN <<<<"behind", res_ahead.counts[2]>>>> ELSE <<>>)
    ELSE <<>>

sync_state(res_ahead) ==
    IF res_ahead.rc = 0
    THEN (IF res_ahead.counts[1] > 0 THEN <<<<"ahead", res_ahead.counts[1]>>>> ELSE <<>>)
         \o (IF res_ahead.counts[2] > 0 THEN <<<<"behind", res_ahead.counts[2]>>>> ELSE <<>>)
    ELSE <<>>

Returned(item, row) == [repo |-> item.repo, raised |-> FALSE, row |-> row]
Raised(item) == [repo |-> item.repo, raised |-> TRUE, row |-> <<>>]
NoRow == [repo |-> <<>>, raised |-> FALSE, row |-> <<>>]

\* A summary with no try/except: the task ends with the exception.
summary_uncaught(item, res_status, res_branch, res_ahead) ==
    LET display_name == _highlight_text(basename(item.repo), item.indices)
    IN  IF \/ res_status.raised \/ res_branch.raised \/ res_ahead.raised
           \/ (res_ahead.rc = 0 /\ Len(res_ahead.counts) # 2)
        THEN Raised(item)
        ELSE Returned(item,
                 [display_name |-> display_name, branch |-> res_branch.stdout,
                  status |-> IF res_status.dirty THEN "CHANGES" ELSE "CLEAN",
                  sync |-> sync_state(res_ahead)])

\* An except clause that keeps the branch name when it is already known.
summary_error_keeps_branch(item, res_status, res_branch, res_ahead) ==
    LET display_name == _highlight_text(basename(item.repo), item.indices)
    IN  IF \/ res_status.raised \/ res_branch.raised \/ res_ahead.raised
           \/ (res_ahead.rc = 0 /\ Len(res_ahead.counts) # 2)
        THEN Returned(item,
                 [display_name |-> display_name,
                  branch |-> IF res_branch.rc = 0 /\ ~res_branch.raised
                             THEN res_branch.stdout ELSE "Unknown",
                  status |-> "ERROR", sync |-> <<>>])
        ELSE Returned(item,
                 [display_name |-> display_name, branch |-> res_branch.stdout,
                  status |-> IF res_status.dirty THEN "CHANGES" ELSE "CLEAN",
                  sync |-> sync_state(res_ahead)])

_get_repo_status_summary(item, res_status, res_branch, res_ahead) ==
    LET display_name == _highlight_text(basename(item.repo), item.indices)
    IN  IF \/ res_status.raised \/ res_branch.raised \/ res_ahead.raised
           \/ (res_ahead.rc = 0 /\ Len(res_ahead.counts) # 2)
        THEN Returned(item,
                 [display_name |-> display_name, branch |-> "Unknown",
                  status |-> "ERROR", sync |-> <<>>])
        ELSE Returned(item,
                 [display_name |-> display_name, branch |-> res_branch.stdout,
                  status |-> IF res_status.dirty THEN "CHANGES" ELSE "CLEAN",
                  sync |-> sync_state(res_ahead)])

(***************************************************************************)
(* show_summary, lines 284-298.                                            *)
(***************************************************************************)
ShowSummary ==
    /\ pc = "command"
    /\ argv.command = "summary"
    /\ IF target_map = <<>>
       THEN /\ out' = Append(out, Line("notice", <<>>, <<>>))
            /\ pc' = "exit"
            /\ UNCHANGED <<world, wpc, rows>>
       ELSE /\ out' = out \o <<Line("banner", <<>>, <<>>), Line("tablehead", <<>>, <<>>),
                               Line("rule", <<>>, <<>>)>>
            /\ world' = [i \in Targets |-> NoQueries]
            /\ wpc' = [i \in Targets |-> "new"]
            /\ rows' = [i \in Targets |-> NoRow]
            /\ pc' = "submit"
    /\ UNCHANGED <<repos, argv, sel_vars, todo, lock, results, match_vars>>

\* One pool task: _get_repo_status_summary(repo, targets_map[repo]).
Summarize(i) ==
    /\ wpc[i] = "query"
    /\ \E q \in Queries :
          /\ world' = [world EXCEPT ![i] = q]
          /\ rows' = [rows EXCEPT ![i] =
                _get_repo_status_summary(target_map[i], q.status, q.branch, q.ahead)]
    /\ wpc' = [wpc EXCEPT ![i] = "done"]
    /\ UNCHANGED <<repos, argv, pc, sel_vars, todo, lock, out, results, match_vars>>

\* "for f in futures: results.append(f.result())" handing out results as
\* the tasks complete.
CollectAsCompleted ==
    /\ pc = "collect"
    /\ \E k \in Targets :
          /\ wpc[k] = "done"
          /\ \A j \in 1..Len(results) : results[j].repo # rows[k].repo
          /\ results' = Append(results, rows[k])
    /\ pc' = IF Len(results) + 1 = NTargets THEN "rows" ELSE "collect"
    /\ UNCHANGED <<repos, argv, sel_vars, world, wpc, todo, lock, out, rows, match_vars>>

(***************************************************************************)
(* show_summary, lines 304-305: f.result() of the next future, in          *)
(* submission order; it blocks until that task is done and re-raises what  *)
(* the task raised, which leaves the with-block (joining the pool) and     *)
(* show_summary.                                                           *)
(***************************************************************************)
Collect ==
    /\ pc = "collect"
    /\ LET k == Len(results) + 1
       IN  /\ wpc[k] = "done"
           /\ IF rows[k].raised
              THEN /\ pc' = "join"
                   /\ UNCHANGED results
              ELSE /\ results' = Append(results, rows[k])
                   /\ pc' = IF k = NTargets THEN "rows" ELSE "collect"
    /\ UNCHANGED <<repos, argv, sel_vars, world, wpc, todo, lock, out, rows, match_vars>>

RowsPrinted == Cardinality({p \in 1..Len(out) : out[p].kind = "row"})

\* A row printed as soon as its result is in.
PrintRowEarly ==
    /\ pc \in {"collect", "rows"}
    /\ RowsPrinted < Len(results)
    /\ out' = Append(out, Line("row", results[RowsPrinted + 1].repo,
                               results[RowsPrinted + 1].row))
    /\ UNCHANGED <<repos, argv, pc, sel_vars, pool_vars, match_vars>>

(***************************************************************************)
(* show_summary, lines 307-316: the rows, in the order of "results", and   *)
(* the closing rule.                                                       *)
(***************************************************************************)
PrintRow ==
    /\ pc = "rows"
    /\ RowsPrinted < Len(results)
    /\ out' = Append(out, Line("row", results[RowsPrinted + 1].repo,
                               results[RowsPrinted + 1].row))
    /\ UNCHANGED <<repos, argv, pc, sel_vars, pool_vars, match_vars>>

PrintRule ==
    /\ pc = "rows"
    /\ RowsPrinted = Len(results)
    /\ out' = Append(out, Line("rule", <<>>, <<>>))
    /\ pc' = "exit"
    /\ UNCHANGED <<repos, argv, sel_vars, pool_vars, match_vars>>

(***************************************************************************)
(* One invocation "mgit [-t selector] <git command>" or "mgit [-t          *)
(* selector] summary".  A command that never terminates is a task that     *)
(* never leaves "run"; nothing obliges a behaviour of Spec to go on, so    *)
(* "hang" need not be among the outcomes here.                             *)
(***************************************************************************)
SpecRegistries == {SubSeq(AllPaths, 1, n) : n \in 0..MaxRepos}
SpecSelectors == {<<>>, <<"1", ",", "0">>, <<"a">>}

Init ==
    /\ repos \in SpecRegistries
    /\ argv \in [selector : SpecSelectors, command : {"git", "summary"}]
    /\ pc = "main"
    /\ out = <<>>
    /\ SelIdle /\ PoolIdle /\ MatchIdle

Next ==
    \/ Main
    \/ GetTargetRepos
    \/ ResolveKey
    \/ ResolveReturn
    \/ RunConcurrent
    \/ ShowSummary
    \/ \E i \in DOMAIN wpc : Submit(i)
    \/ \E i \in DOMAIN wpc : Start(i)
    \/ \E i \in DOMAIN wpc : RunDone(i)
    \/ \E i \in DOMAIN wpc : Acquire(i)
    \/ \E i \in DOMAIN wpc : PrintLine(i)
    \/ \E i \in DOMAIN wpc : Release(i)
    \/ \E i \in DOMAIN wpc : Summarize(i)
    \/ Join
    \/ Collect
    \/ PrintRow
    \/ PrintRule

Spec == Init /\ [][Next]_vars

\* Threads that can take a step do; a command that terminates is waited for.
FairSpec == Spec /\ WF_vars(Next)

(***************************************************************************)
(* Large dispatches: run_concurrent has printed its banner and is about    *)
(* to submit the tasks of 1 to MaxWorkers + PoolExtra targets, of which    *)
(* the commands of the first few terminate and the others never do.        *)
(***************************************************************************)
PoolPath(n) == <<"/">> \o [j \in 1..n |-> "r"]

InitPool ==
    \E n \in 1..(MaxWorkers + PoolExtra), live \in 0..PoolLive :
        /\ repos = [i \in 1..n |-> PoolPath(i)]
        /\ argv = [selector |-> <<>>, command |-> "git"]
        /\ pc = "submit"
        /\ target_map = all_repos(repos)
        /\ keys = <<>> /\ selected_map = <<>> /\ warnings = <<>> /\ resolved = <<>>
        /\ world = [i \in 1..n |-> IF i <= live THEN Ok ELSE Hang]
        /\ wpc = [i \in 1..n |-> "new"]
        /\ todo = [i \in 1..n |-> <<>>]
        /\ lock = 0
        /\ out = <<Line("banner", <<>>, <<>>)>>
        /\ rows = <<>> /\ results = <<>>
        /\ MatchIdle

NextPool ==
    \/ \E i \in DOMAIN wpc : Submit(i)
    \/ \E i \in DOMAIN wpc : Start(i)
    \/ \E i \in DOMAIN wpc : RunDone(i)
    \/ \E i \in DOMAIN wpc : Acquire(i)
    \/ \E i \in DOMAIN wpc : PrintLine(i)
    \/ \E i \in DOMAIN wpc : Release(i)
    \/ Join

SpecPool == InitPool /\ [][NextPool]_vars

(***************************************************************************)
(* Properties of the dispatcher and of the aggregator.                     *)
(***************************************************************************)
Clean(i) == world[i].kind = "result" /\ world[i].fault = "none"
Occurs(block) ==
    \E p \in 1..Len(out) :
        p + Len(block) - 1 <= Len(out) /\ SubSeq(out, p, p + Len(block) - 1) = block
CountLines(P(_)) == Cardinality({p \in 1..Len(out) : P(out[p])})
IsHeader(l) == l.kind = "header"
IsFooter(l) == l.kind = "footer"
IsRow(l) == l.kind = "row"
HasBlock(i) == Occurs(block_lines(target_map[i], world[i]))

\* C1: in a dispatch, no line of another target lies between a target's
\* header and its footer, at any moment and in any interleaving; and when
\* the commands of all N targets complete and their blocks are printed without
\* an exception, the output at the end holds exactly N headers and N footers
\* and, for every target, its header, body and footer as consecutive lines
\* and no other line of it.
C1_BlocksNeverInterleave ==
    argv.command = "git" =>
        /\ \A p \in 1..Len(out), r \in 1..Len(out) :
              (p < r /\ IsHeader(out[p]) /\ IsFooter(out[r]) /\ out[r].repo = out[p].repo)
                  => \A q \in p..r : out[q].repo = out[p].repo
        /\ (pc = "exit" /\ \A i \in DOMAIN world : Clean(i)) =>
              /\ CountLines(IsHeader) = NTargets
              /\ CountLines(IsFooter) = NTargets
              /\ \A i \in DOMAIN world :
                    /\ HasBlock(i)
                    /\ Cardinality({p \in 1..Len(out) : out[p].repo = target_map[i].repo})
                          = Len(block_lines(target_map[i], world[i]))

\* Two targets whose commands completed, the block of the second printed first.
C1_Witness ==
    /\ argv.command = "git" /\ pc = "exit"
    /\ NTargets = 2
    /\ \A i \in DOMAIN world : Clean(i)
    /\ out[2].repo = target_map[2].repo
    /\ HasBlock(1) /\ HasBlock(2)

RegistryIndex(repo) == CHOOSE j \in 1..Len(repos) : repos[j] = repo
RowPositions == {p \in 1..Len(out) : IsRow(out[p])}

\* C2, as the claim states it: the rows show_summary prints appear in
\* Registry order: if A precedes B in the Registry, A's row precedes B's.
C2_RowsInRegistryOrder ==
    \A p \in RowPositions, q \in RowPositions :
        p < q => RegistryIndex(out[p].repo) < RegistryIndex(out[q].repo)

\* C2, amended: the rows show_summary prints appear in the order of the
\* target map, that is the order in which the selector first selected each
\* repository (Registry order when there is no selector), whatever the order
\* in which the workers complete: the k-th row printed is the summary of the
\* k-th target.
C2_RowsInTargetMapOrder ==
    \A p \in RowPositions :
        LET k == Cardinality({q \in RowPositions : q <= p})
        IN  /\ k <= NTargets
            /\ out[p].repo = target_map[k].repo
            /\ out[p].text = rows[k].row

\* The selector "1,0": both rows printed, repository 1 first.
C2_Witness ==
    /\ argv.command = "summary" /\ pc = "exit"
    /\ argv.selector = <<"1", ",", "0">>
    /\ repos = <<RepoA0, RepoA2>>
    /\ \E p \in RowPositions, q \in RowPositions :
          p < q /\ out[p].repo = RepoA2 /\ out[q].repo = RepoA0

\* C3: when the invocation ends, every target's task has run to its end,
\* whatever happened to the others: in a dispatch, every target whose command
\* completed has its block printed and every target whose command could not
\* be run has its error line; in a summary, every target has its row.
C3_FailureIsolated ==
    pc = "exit" =>
        /\ \A i \in DOMAIN wpc : wpc[i] = "done"
        /\ argv.command = "git" =>
              \A i \in DOMAIN world :
                  /\ Clean(i) => HasBlock(i)
                  /\ (world[i].kind = "nofile" /\ world[i].fault = "none")
                        => Occurs(<<Line("nopath", target_map[i].repo, <<>>)>>)
                  /\ (world[i].kind = "exc" /\ world[i].fault = "none")
                        => Occurs(<<Line("error", target_map[i].repo, <<>>)>>)
        /\ argv.command = "summary" =>
              /\ CountLines(IsRow) = NTargets
              /\ \A i \in Targets :
                    \E p \in RowPositions : out[p].repo = target_map[i].repo

\* A dispatch in which the first target's directory is missing and the second
\* target's block is printed all the same.
C3_Witness ==
    /\ argv.command = "git" /\ pc = "exit"
    /\ NTargets = 2
    /\ world[1].kind = "nofile"
    /\ Clean(2) /\ HasBlock(2)

Running == {i \in DOMAIN wpc : wpc[i] = "run"}

\* C7: at every moment of a dispatch over N targets, at most min(10, N)
\* tasks are running an external process.
C7_AtMostTenProcesses ==
    argv.command = "git" =>
        Cardinality(Running) <= (IF NTargets < 10 THEN NTargets ELSE 10)

\* Ten commands running while an eleventh target waits for a free worker.
C7_Witness ==
    /\ argv.command = "git"
    /\ NTargets > 10
    /\ Cardinality(Running) = 10
    /\ \E i \in DOMAIN wpc : wpc[i] = "queued"

\* C8: a task holds print_lock only inside a with-block: it never holds it
\* when it is done or running its command, and never while it waits for
\* the lock, also after a print of its block raised; and, provided the
\* commands terminate, a task that waits for the lock gets it.
C8_LockAlwaysReleased ==
    /\ [](\A i \in DOMAIN wpc : (lock = i) => wpc[i] \in Printing)
    /\ [](lock # 0 => lock \in DOMAIN wpc)
    /\ \A i \in 1..MaxRepos :
          (i \in DOMAIN wpc /\ wpc[i] \in LockWaits)
              ~> (i \in DOMAIN wpc /\ lock = i /\ wpc[i] \in Printing)

\* A task whose block print raised holds the lock again in the except
\* clause, while another task waits for it.
C8_Witness ==
    \E i \in DOMAIN world, j \in DOMAIN world :
        /\ argv.command = "git"
        /\ world[i].kind = "result" /\ world[i].fault = "body"
        /\ wpc[i] = "print237" /\ lock = i
        /\ wpc[j] \in LockWaits

\* C9: when a table row is printed, every task of the aggregator's pool
\* has finished and its result is in "results".
C9_RowsAfterAllWorkers ==
    CountLines(IsRow) > 0 =>
        /\ \A i \in Targets : wpc[i] = "done"
        /\ Len(results) = NTargets

\* The first of two rows printed.
C9_Witness ==
    /\ argv.command = "summary"
    /\ NTargets = 2
    /\ CountLines(IsRow) = 1

(***************************************************************************)
(* Properties of a whole resolution.                                       *)
(***************************************************************************)
Resolved == pc = "returned" /\ argv.selector # <<>>
SelTokens ==
    LET raw == split(argv.selector, ",")
    IN  {strip(raw[j]) : j \in 1..Len(raw)} \ {<<>>}
IsValidIndex(key) == int_parses(key) /\ 0 <= int(key) /\ int(key) < Len(repos)
MatchUnion(tokens, repo) ==
    UNION {_fuzzy_match(key, basename(repo)).indices :
              key \in {t \in tokens : Matches(t, repo)}}

\* C11, as the claim states it: the highlight set of each repository of the
\* resolved target set is the union of the matcher's position sets over the
\* non-numeric tokens that match its basename.
C11_UnionOverNonNumericTokens ==
    Resolved =>
        \A j \in 1..Len(target_map) :
            target_map[j].indices =
                MatchUnion({t \in SelTokens : ~int_parses(t)}, target_map[j].repo)

\* C11, amended: the highlight set of each repository of the resolved target
\* set is the union of the matcher's position sets over the tokens that are
\* not a valid index (names, and integers outside the Registry's range) and
\* match its basename; and no token removes a repository or a position that
\* an earlier token contributed.
C11_UnionOverNameTokens ==
    /\ [](Resolved =>
            \A j \in 1..Len(target_map) :
                target_map[j].indices =
                    MatchUnion({t \in SelTokens : ~IsValidIndex(t)}, target_map[j].repo))
    /\ [][pc = "keys" =>
            \A j \in 1..Len(selected_map) :
                /\ dict_has(selected_map', selected_map[j].repo)
                /\ selected_map[j].indices
                      \subseteq dict_get(selected_map', selected_map[j].repo)]_vars

\* "a0,a": the second token matches position 0 only, and the positions {0, 1}
\* of the first token are still there.
C11_Witness ==
    /\ Resolved
    /\ argv.selector = <<"a", "0", ",", "a">>
    /\ repos = <<RepoA0, RepoA2>>
    /\ target_map = <<[repo |-> RepoA0, indices |-> {0, 1}],
                      [repo |-> RepoA2, indices |-> {0}]>>

\* C12: resolving an empty or absent selector yields a target set whose keys
\* are exactly the Registry's repositories, in Registry order, each with an
\* empty highlight set, and prints no warning.
C12_EmptySelectorSelectsAll ==
    (pc = "returned" /\ argv.selector = <<>>) =>
        /\ dict_keys(target_map) = repos
        /\ \A j \in 1..Len(target_map) : target_map[j].indices = {}
        /\ warnings = <<>>

\* The empty selector resolved against a registry of two repositories.
C12_Witness ==
    /\ pc = "returned" /\ argv.selector = <<>>
    /\ repos = <<RepoA2, RepoI>>
    /\ Len(target_map) = 2

RemoveAt(s, j) == SubSeq(s, 1, j - 1) \o SubSeq(s, j + 1, Len(s))
Unmatched(key) ==
    /\ key # <<>> /\ ~isdigit(key) /\ ~IsValidIndex(key)
    /\ \A r \in Range(repos) : ~Matches(key, r)

\* C13: a token that is not a number, is no valid index and matches no
\* repository gets a warning that names it, and changes nothing else: the
\* loop goes on to the next token with the map as it was, and the resolved
\* target set and the other warnings are those of the selector without that
\* token.
C13_UnmatchedTokenOnlyWarns ==
    /\ [][(AtKey /\ Unmatched(CurrentKey)) =>
            /\ selected_map' = selected_map
            /\ warnings' = Append(warnings, CurrentKey)
            /\ keys' = Tail(keys)
            /\ pc' = "keys"]_vars
    /\ [](Resolved =>
            LET raw == split(argv.selector, ",")
            IN  \A j \in 1..Len(raw) :
                    Unmatched(strip(raw[j])) =>
                        LET before == resolve_keys(<<>>, <<>>, SubSeq(raw, 1, j - 1), repos)
                            without == resolve_keys(<<>>, <<>>, RemoveAt(raw, j), repos)
                            w == Len(before.warnings) + 1
                        IN  /\ target_map = without.selected_map
                            /\ w <= Len(warnings)
                            /\ warnings[w] = strip(raw[j])
                            /\ RemoveAt(warnings, w) = without.warnings)

\* A token between two others matches nothing and is warned about; two
\* repositories are selected all the same, the second one by name.
C13_Witness ==
    /\ Resolved
    /\ \E j \in 1..Len(split(argv.selector, ",")) :
          /\ 1 < j /\ j < Len(split(argv.selector, ","))
          /\ Unmatched(strip(split(argv.selector, ",")[j]))
    /\ warnings # <<>>
    /\ Len(target_map) = 2
    /\ target_map[2].indices # {}

\* C18: in every target set that resolution produces, every key is a path of
\* the Registry and every highlight index i stored for a repository
\* satisfies 0 <= i < len(basename of its path).
C18_HighlightsWithinName ==
    pc = "returned" =>
        \A j \in 1..Len(target_map) :
            /\ target_map[j].repo \in Range(repos)
            /\ \A i \in target_map[j].indices :
                  0 <= i /\ i < Len(basename(target_map[j].repo))

\* C19: resolving the same selector again against the unchanged registry
\* returns the same target set, keys and highlight sets alike, and is the
\* function get_target_repos of the selector and the registry alone; and no
\* step of a resolution modifies the registry.
C19_ResolutionIdempotent ==
    /\ [](\A j \in 1..Len(resolved) :
            /\ resolved[j] = resolved[1]
            /\ resolved[j] = get_target_repos(argv.selector, repos).selected_map)
    /\ [](pc = "returned" =>
            warnings = get_target_repos(argv.selector, repos).warnings)
    /\ [][repos' = repos]_vars

\* "2,0" resolved twice against two repositories: both times the second
\* repository by name and then the first by index.
C19_Witness ==
    /\ pc = "returned"
    /\ Len(resolved) = 2
    /\ argv.selector = <<"2", ",", "0">>
    /\ repos = <<RepoA0, RepoA2>>
    /\ resolved[2] = <<[repo |-> RepoA2, indices |-> {1}],
                       [repo |-> RepoA0, indices |-> {}]>>

(***************************************************************************)
(* Properties of one repository's summary.                                 *)
(***************************************************************************)
SummaryDone(i) == argv.command = "summary" /\ i \in DOMAIN wpc /\ wpc[i] = "done"
Ran(res) == res # NotRun
Succeeded(res) == Ran(res) /\ ~res.raised /\ res.rc = 0
BranchFailed(q) == q.branch.raised \/ (Ran(q.branch) /\ q.branch.rc # 0)
Excepted(q) ==
    \/ q.status.raised \/ q.branch.raised \/ q.ahead.raised
    \/ (Ran(q.ahead) /\ q.ahead.rc = 0 /\ Len(q.ahead.counts) # 2)
ErrorRow(item) ==
    [display_name |-> _highlight_text(basename(item.repo), item.indices),
     branch |-> "Unknown", status |-> "ERROR", sync |-> <<>>]

\* C14: whenever the current-branch query of a repository fails, by raising
\* or by exiting with a non-zero status, the branch field of the repository's
\* row is "Unknown".
C14_BranchUnknownOnFailure ==
    \A i \in DOMAIN wpc :
        (SummaryDone(i) /\ BranchFailed(world[i])) => rows[i].row.branch = "Unknown"

\* C15: when the dirty check and the branch query succeed and the
\* ahead/behind query exits non-zero, the row has the real branch name, the
\* dirty/clean classification and an empty sync field; when the ahead/behind
\* query succeeds with its two counts, the sync field holds the ahead glyph
\* with the count iff ahead > 0, the behind glyph with the count iff
\* behind > 0, and nothing else.
C15_AheadFailureOnlyEmptiesSync ==
    \A i \in DOMAIN wpc :
        (/\ SummaryDone(i)
         /\ ~world[i].status.raised
         /\ Succeeded(world[i].branch)
         /\ Ran(world[i].ahead) /\ ~world[i].ahead.raised) =>
            LET q == world[i]
                row == rows[i].row
            IN  /\ q.ahead.rc # 0 =>
                      /\ row.branch = q.branch.stdout
                      /\ row.status = (IF q.status.dirty THEN "CHANGES" ELSE "CLEAN")
                      /\ row.sync = <<>>
                /\ (q.ahead.rc = 0 /\ Len(q.ahead.counts) = 2) =>
                      LET ahead == q.ahead.counts[1]
                          behind == q.ahead.counts[2]
                      IN  /\ <<"ahead", ahead>> \in Range(row.sync) <=> ahead > 0
                          /\ <<"behind", behind>> \in Range(row.sync) <=> behind > 0
                          /\ Range(row.sync) \subseteq
                                {<<"ahead", ahead>>, <<"behind", behind>>}
                          /\ Len(row.sync) = Cardinality(Range(row.sync))
                          /\ (ahead = 0 /\ behind = 0) => row.sync = <<>>

\* One repository with no such remote branch, dirty, on "main"; another two
\* commits ahead and none behind.
C15_Witness ==
    /\ NTargets = 2 /\ SummaryDone(1) /\ SummaryDone(2)
    /\ Succeeded(world[1].branch) /\ Ran(world[1].ahead) /\ world[1].ahead.rc = 128
    /\ rows[1].row.branch = "main" /\ rows[1].row.status = "CHANGES"
    /\ rows[1].row.sync = <<>>
    /\ rows[2].row.sync = <<<<"ahead", 2>>>>

\* C16: an exception anywhere in a repository's summary (a query that
\* raises, or ahead/behind output that does not unpack into two integers)
\* makes its row exactly (display name, "Unknown", ERROR, empty sync); and
\* when show_summary ends it has printed exactly one row per target, the row
\* that target's computation returned.
C16_ExceptionGivesErrorRow ==
    /\ \A i \in DOMAIN wpc :
          (SummaryDone(i) /\ Excepted(world[i])) =>
              rows[i] = Returned(target_map[i], ErrorRow(target_map[i]))
    /\ (argv.command = "summary" /\ pc = "exit") =>
          /\ CountLines(IsRow) = NTargets
          /\ \A i \in Targets :
                /\ Cardinality({p \in RowPositions : out[p].repo = target_map[i].repo}) = 1
                /\ \A p \in RowPositions :
                      out[p].repo = target_map[i].repo => out[p].text = rows[i].row

\* The branch query of the first of two targets raised; both rows are
\* printed, the first the error row, the second a real one.
C16_Witness ==
    /\ argv.command = "summary" /\ pc = "exit" /\ NTargets = 2
    /\ world[1].branch.raised
    /\ ~Excepted(world[2])
    /\ CountLines(IsRow) = 2
    /\ \E p \in RowPositions : out[p].text = ErrorRow(target_map[1])
    /\ \E p \in RowPositions : out[p].text.status = "CLEAN"

(***************************************************************************)
(* The registry: add_repo and remove_repo.  os.path.abspath joins a        *)
(* relative path to the working directory and normalises the result        *)
(* (posixpath.normpath: empty and "." components dropped, ".." resolved,   *)
(* exactly two leading slashes kept).  Whether abs_path/.git is a          *)
(* directory is an input.                                                  *)
(***************************************************************************)
Cwd == <<"/", "c">>
DotDot == <<".", ".">>

isabs(path) == path # <<>> /\ Head(path) = "/"

RECURSIVE join(_, _)
join(comps, sep) ==
    IF comps = <<>> THEN <<>>
    ELSE IF Len(comps) = 1 THEN Head(comps)
    ELSE Head(comps) \o <<sep>> \o join(Tail(comps), sep)

RECURSIVE norm_comps(_, _, _)
norm_comps(comps, new_comps, initial_slashes) ==
    IF comps = <<>> THEN new_comps
    ELSE LET comp == Head(comps)
         IN  IF comp \in {<<>>, <<".">>}
             THEN norm_comps(Tail(comps), new_comps, initial_slashes)
             ELSE IF \/ comp # DotDot
                     \/ (initial_slashes = 0 /\ new_comps = <<>>)
                     \/ (new_comps # <<>> /\ new_comps[Len(new_comps)] = DotDot)
             THEN norm_comps(Tail(comps), Append(new_comps, comp), initial_slashes)
             ELSE IF new_comps # <<>>
             THEN norm_comps(Tail(comps), SubSeq(new_comps, 1, Len(new_comps) - 1),
                             initial_slashes)
             ELSE norm_comps(Tail(comps), new_comps, initial_slashes)

normpath(path) ==
    IF path = <<>> THEN <<".">>
    ELSE LET initial_slashes ==
                 IF Head(path) # "/" THEN 0
                 ELSE IF /\ Len(path) >= 2 /\ path[2] = "/"
                         /\ ~(Len(path) >= 3 /\ path[3] = "/")
                      THEN 2 ELSE 1
             res == [j \in 1..initial_slashes |-> "/"]
                        \o join(norm_comps(split(path, "/"), <<>>, initial_slashes), "/")
         IN  IF res = <<>> THEN <<".">> ELSE res

\* An abspath that returns its argument as it is.
abspath_identity(path) == path

abspath(path) ==
    IF isabs(path) THEN normpath(path)
    ELSE normpath(IF Cwd[Len(Cwd)] = "/" THEN Cwd \o path ELSE Cwd \o <<"/">> \o path)

\* list.remove(x): the first occurrence of x goes.
list_remove(list, x) ==
    LET j == Min({k \in 1..Len(list) : list[k] = x})
    IN  SubSeq(list, 1, j - 1) \o SubSeq(list, j + 1, Len(list))

\* An add_repo with no test for a path that is already there.
add_repo_unchecked(rs, path, is_git) ==
    LET abs_path == abspath(path)
    IN  IF ~is_git THEN [repos |-> rs, line |-> Line("invalid", abs_path, <<>>)]
        ELSE [repos |-> Append(rs, abs_path), line |-> Line("added", abs_path, <<>>)]

add_repo(rs, path, is_git) ==
    LET abs_path == abspath(path)
    IN  IF ~is_git THEN [repos |-> rs, line |-> Line("invalid", abs_path, <<>>)]
        ELSE IF abs_path \in Range(rs)
        THEN [repos |-> rs, line |-> Line("exists", abs_path, <<>>)]
        ELSE [repos |-> Append(rs, abs_path), line |-> Line("added", abs_path, <<>>)]

remove_repo(rs, target) ==
    LET target_path ==
            IF int_parses(target)
            THEN (IF 0 <= int(target) /\ int(target) < Len(rs)
                  THEN rs[int(target) + 1] ELSE <<>>)
            ELSE (IF abspath(target) \in Range(rs) THEN abspath(target) ELSE <<>>)
    IN  IF target_path # <<>>
        THEN [repos |-> list_remove(rs, target_path),
              line |-> Line("removed", target_path, <<>>)]
        ELSE [repos |-> rs, line |-> Line("notfound", target, <<>>)]

(***************************************************************************)
(* A sequence of "mgit repo-add <path>" and "mgit repo-rm <path/id>" on a  *)
(* registry that add_repo built; out holds what the last one printed.      *)
(***************************************************************************)
PathArgs ==
    { <<"a">>, <<".", "/", "a">>, <<"a", "/">>, <<"/", "c", "/", "a">>,
      <<"/", "c", "/", "/", "a">>, <<".", ".", "/", "c", "/", "a">>,
      <<"b">>, <<"a", "/", ".", ".", "/", "b">>, <<".", ".">>, <<"/">>, <<>>,
      <<"/", "/", "c", "/", "a">>, RepoA0, <<".", ".", "/", "x", "/", "a", "0">> }
IndexArgs == { <<"0">>, <<"1">>, <<"2">>, <<"2", "2">>, <<"-", "1">>, <<"-", "0">> }

AddRepo ==
    /\ pc = "registry"
    /\ \E path \in PathArgs, is_git \in BOOLEAN :
          LET r == add_repo(repos, path, is_git)
          IN  /\ Len(r.repos) <= MaxRegistry
              /\ repos' = r.repos
              /\ out' = <<r.line>>
    /\ UNCHANGED <<argv, pc, sel_vars, pool_vars, match_vars>>

RemoveRepo ==
    /\ pc = "registry"
    /\ \E target \in PathArgs \cup IndexArgs :
          LET r == remove_repo(repos, target)
          IN  /\ repos' = r.repos
              /\ out' = <<r.line>>
    /\ UNCHANGED <<argv, pc, sel_vars, pool_vars, match_vars>>

InitRegistry ==
    /\ repos \in SpecRegistries
    /\ argv = NoArgv
    /\ pc = "registry"
    /\ out = <<>>
    /\ SelIdle /\ PoolIdle /\ MatchIdle

NextRegistry == AddRepo \/ RemoveRepo
SpecRegistry == InitRegistry /\ [][NextRegistry]_vars

NoDuplicates(list) == \A j \in 1..Len(list), k \in 1..Len(list) : list[j] = list[k] => j = k
AddStep == out' # <<>> /\ out'[1].kind \in {"added", "exists", "invalid"}
RemoveStep == out' # <<>> /\ out'[1].kind \in {"removed", "notfound"}

\* C17: from a registry of unique absolute paths, every sequence of add_repo
\* and remove_repo leaves a registry with no duplicate and only absolute
\* paths; an add_repo of a path whose absolute form is already there leaves
\* the registry as it was; a remove_repo removes at most one entry and keeps
\* the others in their order.
C17_RegistryUniqueAbsolute ==
    /\ [](pc = "registry" =>
            /\ NoDuplicates(repos)
            /\ \A j \in 1..Len(repos) : isabs(repos[j]))
    /\ [][(pc = "registry" /\ AddStep /\ out'[1].repo \in Range(repos))
            => repos' = repos]_vars
    /\ [][(pc = "registry" /\ RemoveStep) =>
            \/ repos' = repos
            \/ \E j \in 1..Len(repos) :
                  repos' = SubSeq(repos, 1, j - 1) \o SubSeq(repos, j + 1, Len(repos))]_vars

\* "/c/a" offered again, after two other paths were added behind it and the
\* first of the three paths was removed.
C17_Witness ==
    /\ pc = "registry"
    /\ Len(repos) = 3
    /\ repos[1] = <<"/", "c", "/", "a">>
    /\ repos[3] = <<"/">>
    /\ out = <<Line("exists", <<"/", "c", "/", "a">>, <<>>)>>

(***************************************************************************)
(* Large dispatches in which every command terminates: run_concurrent is   *)
(* called with 0 to MaxWorkers + PoolExtra targets.  The commands of the   *)
(* first few targets terminate at any moment, with a result or with the    *)
(* directory missing; each of the others terminates once the tasks of the  *)
(* targets before it are over.                                             *)
(***************************************************************************)
QueueWorlds ==
    {[i \in Targets |-> IF i <= live THEN first[i] ELSE Late(Ok, i - 1)] :
        live \in 0..PoolLive,
        first \in [1..PoolLive -> {Ok, Raises("nofile", "none")}]}

InitDispatch ==
    \E n \in 0..(MaxWorkers + PoolExtra) :
        /\ repos = [i \in 1..n |-> PoolPath(i)]
        /\ argv = [selector |-> <<>>, command |-> "git"]
        /\ pc = "command"
        /\ target_map = all_repos(repos)
        /\ keys = <<>> /\ selected_map = <<>> /\ warnings = <<>> /\ resolved = <<>>
        /\ out = <<>>
        /\ PoolIdle /\ MatchIdle

RunConcurrentQueue == run_concurrent(QueueWorlds)

NextDispatch ==
    \/ RunConcurrentQueue
    \/ \E i \in DOMAIN wpc : Submit(i)
    \/ \E i \in DOMAIN wpc : Start(i)
    \/ \E i \in DOMAIN wpc : RunDone(i)
    \/ \E i \in DOMAIN wpc : Acquire(i)
    \/ \E i \in DOMAIN wpc : PrintLine(i)
    \/ \E i \in DOMAIN wpc : Release(i)
    \/ Join

SpecDispatch == InitDispatch /\ [][NextDispatch]_vars
FairDispatch == SpecDispatch /\ WF_vars(NextDispatch)

LinesOf(i) == {p \in 1..Len(out) : out[p].repo = target_map[i].repo}
ErrorLines(i) == {p \in LinesOf(i) : out[p].kind \in {"nopath", "error"}}
HeadersOf(i) == {p \in LinesOf(i) : out[p].kind = "header"}
Faultless(i) == world[i].fault = "none"

\* C20: in a dispatch whose commands all terminate, run_concurrent returns;
\* the task of a target starts its command only once (it leaves the queue
\* once, and is never queued again); when run_concurrent has returned from a
\* non-empty target set every task is over, and every target whose prints
\* did not raise has either its whole block, and no other line, or one error
\* line, and no other line; with an empty target set run_concurrent returns
\* at once: no task is created and the notice is the one line it prints.
C20_EachTargetRunsOnce ==
    /\ (pc = "command" /\ argv.command = "git") ~> (pc = "exit")
    /\ [][argv.command = "git" => \A i \in DOMAIN wpc \cap DOMAIN wpc' :
            /\ wpc'[i] = "new" => wpc[i] = "new"
            /\ wpc'[i] = "queued" => wpc[i] \in {"new", "queued"}
            /\ wpc'[i] = "run" => wpc[i] \in {"queued", "run"}
            /\ (wpc'[i] \in LockWaits \cup Printing /\ wpc[i] \notin LockWaits \cup Printing)
                  => wpc[i] = "run"
            /\ (wpc'[i] = "done" /\ wpc[i] # "done") => wpc[i] \in Printing]_vars
    /\ []((pc = "exit" /\ argv.command = "git" /\ target_map # <<>>) =>
            /\ DOMAIN wpc = Targets
            /\ \A i \in Targets :
                  /\ wpc[i] = "done"
                  /\ Faultless(i) =>
                        IF world[i].kind = "result"
                        THEN /\ HasBlock(i)
                             /\ Cardinality(LinesOf(i))
                                   = Len(block_lines(target_map[i], world[i]))
                        ELSE /\ Cardinality(ErrorLines(i)) = 1
                             /\ LinesOf(i) = ErrorLines(i))
    /\ [][(pc = "command" /\ argv.command = "git" /\ target_map = <<>>) =>
            /\ pc' = "exit"
            /\ wpc = <<>> /\ wpc' = <<>>
            /\ out' = Append(out, Line("notice", <<>>, <<>>))]_vars

\* A dispatch over more than ten targets has returned: ten blocks and, for
\* the target whose directory is missing, one error line.
C20_Witness ==
    /\ pc = "exit" /\ argv.command = "git"
    /\ NTargets > 10
    /\ \A i \in Targets : wpc[i] = "done"
    /\ world[2].kind = "nofile"
    /\ Cardinality(ErrorLines(2)) = 1
    /\ CountLines(IsHeader) = NTargets - 1
    /\ CountLines(IsFooter) = NTargets - 1
====
